---- MODULE Spec2Model ----
(***************************************************************************)
(* One dashboard request of main.go: dashboardHandler validates the        *)
(* period, fetchWorkflowRuns walks organizations -> repositories -> runs   *)
(* through the GitHub API, sorts the collected jobs and returns them, and  *)
(* dashboardHandler computes the stats and writes the response.            *)
(*                                                                         *)
(* Instants are whole seconds since 2026-01-01T00:00:00Z.  A Go pointer    *)
(* is a sequence of length 0 (nil) or 1.  The API is the environment: the  *)
(* outcome of each call (error, or a listing and a rate) is chosen when    *)
(* the call is made.  A string the program formats is the string itself.   *)
(* A field of a run that the program dereferences without a check is in    *)
(* the run's record exactly when its pointer is not nil; the dereference   *)
(* of a nil pointer panics, and the request is left without a response.    *)
(* Specifications that keep the log of calls use the Logged actions.       *)
(***************************************************************************)
EXTENDS Integers, Sequences, FiniteSets, TLC

VARIABLES
    query,          \* r.URL.Query().Get("period") of the request
    loc,            \* now.Location(): the server's UTC offset in seconds
    clock,          \* what time.Now() returns
    orgNames,       \* the configured organizations
    pc,             \* position in dashboardHandler / fetchWorkflowRuns
    period,         \* the period keyword passed to fetchWorkflowRuns
    now,            \* fetchWorkflowRuns: now := time.Now()
    startTime,      \* fetchWorkflowRuns: startTime
    orgIdx,         \* index of the organization of the outer loop
    repos,          \* the listing ListByOrg returned for that organization
    filteredRepos,  \* the repositories that passed the filter
    repoIdx,        \* index into filteredRepos of the inner loop
    allJobs,        \* fetchWorkflowRuns: allJobs
    rateLimitInfo,  \* fetchWorkflowRuns: rateLimitInfo (pointer)
    err,            \* the error fetchWorkflowRuns returned (pointer)
    response,       \* what dashboardHandler wrote (pointer)
    collected,      \* history: the jobs in the order they were appended
    skipped,        \* history: the units whose listing call failed
    lastReported,   \* history: the rate of the last call that reported one
    lowestReported, \* history: the lowest remaining count a call reported
    orgCalls,       \* history: how many repository listings were asked for
    runCalls,       \* history: how many run listings were asked for
    survivors,      \* history: how many repositories passed the filter
    fetched,        \* history: how many runs the API returned so far
    calls           \* history: the API calls a specification keeps a log of

vars == <<query, loc, clock, orgNames, pc, period, now, startTime, orgIdx,
          repos, filteredRepos, repoIdx, allJobs, rateLimitInfo, err,
          response, collected, skipped, lastReported, lowestReported, orgCalls,
          runCalls, survivors, fetched, calls>>

----------------------------------------------------------------------------
(* Bounds of the model *)

\* the organizations configured
MaxOrgs == 2
\* the runs the API returns over one cycle
MaxRuns == 2
\* the repositories of one listing, where the listings are drawn from many
MaxRepos == 2

----------------------------------------------------------------------------
(* Go pointers and small helpers *)

nil == <<>>
Ptr(v) == <<v>>
Deref(p) == p[1]

Hour == 3600
Day == 24 * Hour

SeqsUpTo(S, n) == UNION {[1..k -> S] : k \in 0..n}

Range(s) == {s[i] : i \in DOMAIN s}

----------------------------------------------------------------------------
(* time: the calendar of 2026 in a fixed-offset location *)

CumDays == <<0, 31, 59, 90, 120, 151, 181, 212, 243, 273, 304, 334, 365>>

YearDay(t, l) == (t + l) \div Day

Month(t, l) == CHOOSE m \in 1..12 : CumDays[m] <= YearDay(t, l) /\ YearDay(t, l) < CumDays[m + 1]

DayOfMonth(t, l) == YearDay(t, l) - CumDays[Month(t, l)] + 1

\* time.Date(2026, month, day, hour, 0, 0, 0, l)
Date(month, day, hour, l) == (CumDays[month] + day - 1) * Day + hour * Hour - l

\* t.AddDate(0, 0, days) in a fixed-offset location
AddDays(t, days) == t + days * Day

\* t.Before(u), t.After(u): comparisons of instants, whatever the location
Before(t, u) == t < u
After(t, u) == t > u

----------------------------------------------------------------------------
(* strings.ToLower on the strings the API returns here *)

ToLower(s) ==
    CASE s = "COMPLETED" -> "completed"
      [] s = "Completed" -> "completed"
      [] s = "In_Progress" -> "in_progress"
      [] s = "QUEUED" -> "queued"
      [] s = "SUCCESS" -> "success"
      [] s = "Success" -> "success"
      [] s = "Failure" -> "failure"
      [] s = "CANCELLED" -> "cancelled"
      [] OTHER -> s

----------------------------------------------------------------------------
(* init: the organizations of GITHUB_ORG *)

\* strings.Split(s, sep) for a separator of one character
RECURSIVE Split(_, _)
Split(s, sep) ==
    IF \E i \in 1..Len(s) : SubSeq(s, i, i) = sep
    THEN LET i == CHOOSE i \in 1..Len(s) :
                     SubSeq(s, i, i) = sep /\ \A k \in 1..(i - 1) : SubSeq(s, k, k) # sep
         IN  <<SubSeq(s, 1, i - 1)>> \o Split(SubSeq(s, i + 1, Len(s)), sep)
    ELSE <<s>>

\* strings.TrimSpace on strings whose white space is the blank
RECURSIVE TrimSpace(_)
TrimSpace(s) ==
    IF s # "" /\ SubSeq(s, 1, 1) = " " THEN TrimSpace(SubSeq(s, 2, Len(s)))
    ELSE IF s # "" /\ SubSeq(s, Len(s), Len(s)) = " "
    THEN TrimSpace(SubSeq(s, 1, Len(s) - 1))
    ELSE s

\* the loop of parseOrganizations over the pieces
RECURSIVE TrimmedNonEmpty(_)
TrimmedNonEmpty(orgs) ==
    IF orgs = <<>> THEN <<>>
    ELSE (IF TrimSpace(Head(orgs)) # "" THEN <<TrimSpace(Head(orgs))>> ELSE <<>>)
         \o TrimmedNonEmpty(Tail(orgs))

parseOrganizations(orgEnv) == TrimmedNonEmpty(Split(orgEnv, ","))

----------------------------------------------------------------------------
(* dashboardHandler: the period of the request *)

\* ValidatePeriod falling back to "month"
ValidatePeriodMonth(q) ==
    LET p == IF q = "" THEN "month" ELSE q
    IN  IF p # "today" /\ p # "week" /\ p # "month" THEN "month" ELSE p

ValidatePeriod(q) ==
    LET p == IF q = "" THEN "week" ELSE q
    IN  IF p # "today" /\ p # "week" /\ p # "month" THEN "week" ELSE p

----------------------------------------------------------------------------
(* fetchWorkflowRuns: the time window *)

\* the switch on period that sets startTime
StartTime(p, t, l) ==
    CASE p = "today" -> Date(Month(t, l), DayOfMonth(t, l), 1, l)
      [] p = "week" -> AddDays(t, -7)
      [] p = "month" -> Date(Month(t, l), 1, 0, l)
      [] OTHER -> AddDays(t, -7)

\* endTime of the "today" branches
EndTime(t, l) == Date(Month(t, l), DayOfMonth(t, l), 23, l)

----------------------------------------------------------------------------
(* fetchWorkflowRuns: the repository filter *)

\* RepoPasses looking at UpdatedAt before PushedAt
RepoPassesUpdatedFirst(repo, p, t, st, l) ==
    LET hasTime == repo.PushedAt # nil \/ repo.UpdatedAt # nil
        checkTime == IF repo.UpdatedAt # nil THEN Deref(repo.UpdatedAt)
                     ELSE Deref(repo.PushedAt)
    IN  /\ hasTime
        /\ ~Before(checkTime, st)
        /\ (p = "today" => ~After(checkTime, EndTime(t, l)))

RepoPasses(repo, p, t, st, l) ==
    LET hasTime == repo.PushedAt # nil \/ repo.UpdatedAt # nil
        checkTime == IF repo.PushedAt # nil THEN Deref(repo.PushedAt)
                     ELSE Deref(repo.UpdatedAt)
    IN  /\ hasTime
        /\ ~Before(checkTime, st)
        /\ (p = "today" => ~After(checkTime, EndTime(t, l)))

RECURSIVE FilterRepos(_, _, _, _, _)
FilterRepos(rs, p, t, st, l) ==
    IF rs = <<>> THEN <<>>
    ELSE (IF RepoPasses(Head(rs), p, t, st, l) THEN <<Head(rs)>> ELSE <<>>)
         \o FilterRepos(Tail(rs), p, t, st, l)

----------------------------------------------------------------------------
(* fetchWorkflowRuns: one run of a listing *)

\* RunPasses looking at CreatedAt before RunStartedAt
RunPassesCreatedFirst(run, p, t, st, l) ==
    LET runTime == IF run.CreatedAt # nil THEN Deref(run.CreatedAt)
                   ELSE Deref(run.RunStartedAt)
    IN  /\ (run.RunStartedAt # nil \/ run.CreatedAt # nil)
        /\ ~Before(runTime, st)
        /\ (p = "today" => ~After(runTime, EndTime(t, l)))

\* the run's time passes the window test
RunPasses(run, p, t, st, l) ==
    LET runTime == IF run.RunStartedAt # nil THEN Deref(run.RunStartedAt)
                   ELSE Deref(run.CreatedAt)
    IN  /\ (run.RunStartedAt # nil \/ run.CreatedAt # nil)
        /\ ~Before(runTime, st)
        /\ (p = "today" => ~After(runTime, EndTime(t, l)))

\* NormalizeStatus comparing the strings as the API spelled them
NormalizeStatusCaseSensitive(rawStatus, rawConclusion) ==
    LET conclusion == IF rawConclusion # nil THEN Deref(rawConclusion) ELSE ""
    IN  IF rawStatus = "completed"
        THEN IF conclusion = "success" THEN "success" ELSE "failed"
        ELSE IF rawStatus = "in_progress" \/ rawStatus = "queued" THEN "running"
        ELSE "pending"

\* jobStatus from *run.Status and run.Conclusion
NormalizeStatus(rawStatus, rawConclusion) ==
    LET status == ToLower(rawStatus)
        conclusion == IF rawConclusion # nil THEN ToLower(Deref(rawConclusion)) ELSE ""
    IN  IF status = "completed"
        THEN IF conclusion = "success" THEN "success"
             ELSE IF conclusion = "failure" \/ conclusion = "cancelled" THEN "failed"
             ELSE "failed"
        ELSE IF status = "in_progress" \/ status = "queued" THEN "running"
        ELSE "pending"

\* createdAt of the Job; clk is what time.Now() returns
JobCreatedAt(run, clk) == IF run.CreatedAt # nil THEN Deref(run.CreatedAt) ELSE clk

\* int(x) of a quotient, and Go's %: both truncate towards zero
Quo(a, b) == IF a >= 0 THEN a \div b ELSE -((-a) \div b)
Rem(a, b) == a - b * Quo(a, b)

\* formatDuration keeping the minutes of the whole duration
formatDurationAllMinutes(start, end) ==
    LET duration == end - start
        hours == Quo(duration, Hour)
        minutes == Quo(duration, 60)
        seconds == Rem(duration, 60)
    IN  IF hours > 0
        THEN ToString(hours) \o "h " \o ToString(minutes) \o "m " \o ToString(seconds) \o "s"
        ELSE IF minutes > 0
        THEN ToString(minutes) \o "m " \o ToString(seconds) \o "s"
        ELSE ToString(seconds) \o "s"

formatDuration(start, end) ==
    LET duration == end - start
        hours == Quo(duration, Hour)
        minutes == Rem(Quo(duration, 60), 60)
        seconds == Rem(duration, 60)
    IN  IF hours > 0
        THEN ToString(hours) \o "h " \o ToString(minutes) \o "m " \o ToString(seconds) \o "s"
        ELSE IF minutes > 0
        THEN ToString(minutes) \o "m " \o ToString(seconds) \o "s"
        ELSE ToString(seconds) \o "s"

\* the duration of the Job
JobDuration(run, clk) ==
    IF run.UpdatedAt # nil /\ run.RunStartedAt # nil
    THEN formatDuration(Deref(run.RunStartedAt), Deref(run.UpdatedAt))
    ELSE IF run.CreatedAt # nil
    THEN (IF run.UpdatedAt # nil
          THEN formatDuration(Deref(run.CreatedAt), Deref(run.UpdatedAt))
          ELSE formatDuration(Deref(run.CreatedAt), clk))
    ELSE "N/A"

\* the name of the Job
JobName(run) ==
    IF run.RunNumber # nil THEN run.Name \o " #" \o ToString(Deref(run.RunNumber))
    ELSE run.Name

\* digits, with zeros in front up to width characters
RECURSIVE ZeroPad(_, _)
ZeroPad(digits, width) ==
    IF Len(digits) >= width THEN digits ELSE ZeroPad("0" \o digits, width)

\* fmt.Sprintf("%0<width>d", n): width is the least width, the sign counts
SprintfZeroPadded(n, width) ==
    IF n < 0 THEN "-" \o ZeroPad(ToString(-n), width - 1) ELSE ZeroPad(ToString(n), width)

\* jobID := fmt.Sprintf("JOB-%06d", *run.ID)
JobID(id) == "JOB-" \o SprintfZeroPadded(id, 6)

JobBranch(run) == IF run.HeadBranch # nil THEN Deref(run.HeadBranch) ELSE "N/A"

\* a pointer the loop dereferences without a nil check: the record of a run
\* has the field exactly when the pointer is not nil
Dereferenced == {"Status", "Name", "ID"}

\* the body of the loop panics on this run (nil pointer dereference)
RunPanics(run) == ~(Dereferenced \subseteq DOMAIN run)

\* the Job appended for a run; its fields started and html_url, which only the
\* page shows, are left out
MakeJob(run, org, repo, clk) ==
    [ID |-> JobID(run.ID),
     Name |-> JobName(run),
     Status |-> NormalizeStatus(run.Status, run.Conclusion),
     Pipeline |-> repo.Name,
     Branch |-> JobBranch(run),
     Duration |-> JobDuration(run, clk),
     Organization |-> org,
     RunID |-> run.ID,
     CreatedAt |-> JobCreatedAt(run, clk)]

\* the loop over workflowRuns.WorkflowRuns panics: a run that passes the window
\* test lacks a field the body dereferences
LoopPanics(runs, p, t, st, l) ==
    \E i \in DOMAIN runs : RunPasses(runs[i], p, t, st, l) /\ RunPanics(runs[i])

\* the loop over workflowRuns.WorkflowRuns: the jobs it appends, in order
RECURSIVE ProcessRuns(_, _, _, _, _, _, _, _)
ProcessRuns(runs, org, repo, p, t, st, l, clk) ==
    IF runs = <<>> THEN <<>>
    ELSE (IF RunPasses(Head(runs), p, t, st, l)
          THEN <<MakeJob(Head(runs), org, repo, clk)>> ELSE <<>>)
         \o ProcessRuns(Tail(runs), org, repo, p, t, st, l, clk)

----------------------------------------------------------------------------
(* fetchWorkflowRuns: the rate limit *)

\* UpdateRate keeping the lowest remaining count seen
UpdateRateLowest(cur, resp) ==
    IF resp # nil /\ (cur = nil \/ Deref(resp).Remaining < Deref(cur).Remaining)
    THEN Ptr([Remaining |-> Deref(resp).Remaining, Limit |-> Deref(resp).Limit,
              ResetAt |-> Deref(resp).Reset])
    ELSE cur

\* rateLimitInfo after a call that returned resp
UpdateRate(cur, resp) ==
    IF resp # nil
    THEN Ptr([Remaining |-> Deref(resp).Remaining, Limit |-> Deref(resp).Limit,
              ResetAt |-> Deref(resp).Reset])
    ELSE cur

DefaultRate(clk) == [Remaining |-> 5000, Limit |-> 5000, ResetAt |-> clk + 1 * Hour]

RateOrDefault(cur, clk) == IF cur = nil THEN Ptr(DefaultRate(clk)) ELSE cur

----------------------------------------------------------------------------
(* fetchWorkflowRuns: sort.Slice(allJobs, less) *)

\* less with the comparison turned round: oldest first
lessOldestFirst(a, b) == Before(a.CreatedAt, b.CreatedAt)

less(a, b) == After(a.CreatedAt, b.CreatedAt)

RemoveAt(s, i) == SubSeq(s, 1, i - 1) \o SubSeq(s, i + 1, Len(s))

\* sort.Slice is not stable: every ordering of allJobs in which no later
\* element is less than an earlier one is a result it may produce
RECURSIVE SortSlice(_)
SortSlice(js) ==
    IF js = <<>> THEN {<<>>}
    ELSE LET first == {i \in DOMAIN js : \A k \in DOMAIN js : ~less(js[k], js[i])}
         IN  UNION {{<<js[i]>> \o rest : rest \in SortSlice(RemoveAt(js, i))} : i \in first}

----------------------------------------------------------------------------
(* calculateStats *)

Count(jobs, status) == Cardinality({i \in DOMAIN jobs : jobs[i].Status = status})

\* calculateStats without the case "pending"
calculateStatsNoPending(jobs) ==
    [Success |-> Count(jobs, "success"),
     Failed |-> Count(jobs, "failed"),
     Running |-> Count(jobs, "running"),
     Pending |-> 0,
     Total |-> Len(jobs)]

calculateStats(jobs) ==
    [Success |-> Count(jobs, "success"),
     Failed |-> Count(jobs, "failed"),
     Running |-> Count(jobs, "running"),
     Pending |-> Count(jobs, "pending"),
     Total |-> Len(jobs)]

----------------------------------------------------------------------------
(* The environment: the configuration and what the API holds *)

\* UTC+7
WIB == 7 * Hour

\* 2026-11-20 23:30:00 local time: the window of "today" has ended, the month
\* began before the week did
LateEvening == Date(11, 20, 23, WIB) + Hour \div 2

\* 2026-11-05 10:00:00 local time: the week began before the month did
Morning == Date(11, 5, 10, WIB)

\* the time one API call takes
Latencies == {1}

OrgPool == <<"acme", "globex", "initech", "umbrella", "hooli">>

OrgConfigs == {SubSeq(OrgPool, 1, n) : n \in 1..MaxOrgs}

\* 00:00:00 local time of the day of t
Midnight(t, l) == Date(Month(t, l), DayOfMonth(t, l), 0, l)

Rates(t) == {[Remaining |-> r, Limit |-> 5000, Reset |-> t + 1200] : r \in {80, 95}}

\* resp of a successful call
Resps(t) == {nil} \cup {Ptr(r) : r \in Rates(t)}

Repo(name, pushed, updated) == [Name |-> name, PushedAt |-> pushed, UpdatedAt |-> updated]

\* repositories an organization may hold when the cycle starts at t
RepoPool(t, l) ==
    LET d == Midnight(t, l)
    IN  {Repo("api", Ptr(d + Hour), Ptr(d + Hour)),
         Repo("web", nil, Ptr(d + 2 * Hour)),
         Repo("docs", nil, nil)}

\* a run as the API returns it, every field present but those that are nil here
WorkflowRun(id, started, created, updated, status, conclusion) ==
    [ID |-> id, Name |-> "CI", RunNumber |-> Ptr(7), HeadBranch |-> Ptr("main"),
     RunStartedAt |-> started, CreatedAt |-> created,
     UpdatedAt |-> updated, Status |-> status, Conclusion |-> conclusion]

\* a run updated two minutes and five seconds after it started
Run(id, started, created, status, conclusion) ==
    WorkflowRun(id, started, created,
                IF started # nil THEN Ptr(Deref(started) + 125)
                ELSE IF created # nil THEN Ptr(Deref(created) + 125)
                ELSE nil,
                status, conclusion)

\* the run with the pointers of these fields nil
Without(run, fields) == [f \in DOMAIN run \ fields |-> run[f]]

NotInFuture(runs, t) ==
    {r \in runs : \A ts \in {r.RunStartedAt, r.CreatedAt} : ts = nil \/ Deref(ts) <= t}

\* runs a repository may hold when the cycle starts at t: on and around the
\* bounds of the windows, re-run (started after created), without timestamps
RunPool(t, l) ==
    LET d == Midnight(t, l)
    IN  NotInFuture(
          {Run(1, Ptr(d + Hour), Ptr(d + Hour), "completed", Ptr("success")),
           Run(2, Ptr(d + Hour - 1), Ptr(d + Hour - 1), "completed", Ptr("failure")),
           Run(3, Ptr(d + 23 * Hour), Ptr(d + 23 * Hour), "in_progress", nil),
           Run(4, Ptr(d + 23 * Hour + 1), Ptr(d + 23 * Hour + 1), "queued", nil),
           Run(5, Ptr(d + 2 * Hour), Ptr(d - 22 * Hour), "Completed", Ptr("Success")),
           Run(6, nil, Ptr(d + Hour), "waiting", nil),
           Run(7, nil, nil, "completed", Ptr("success")),
           Run(8, Ptr(AddDays(t, -8)), Ptr(AddDays(t, -8)), "completed", Ptr("CANCELLED")),
           Run(9, Ptr(d + 2 * Hour), nil, "QUEUED", nil)}, t)

\* ListOptions{PerPage: ...} of the two listing calls
ReposPerPage == 100
RunsPerPage == 50

\* what a listing call without a page number returns of what the API holds
FirstPage(held, perPage) ==
    SubSeq(held, 1, IF Len(held) < perPage THEN Len(held) ELSE perPage)

\* listings: sequences without repetition
Listings(S, n) == {s \in SeqsUpTo(S, n) : \A i, j \in DOMAIN s : s[i] = s[j] => i = j}

----------------------------------------------------------------------------
(* The request *)

\* the state when a request arrives
Start(queries, locations, clocks, configs) ==
    /\ query \in queries
    /\ loc \in locations
    /\ clock \in clocks
    /\ orgNames \in configs
    /\ pc = "request"
    /\ period = ""
    /\ now = 0
    /\ startTime = 0
    /\ orgIdx = 0
    /\ repos = <<>>
    /\ filteredRepos = <<>>
    /\ repoIdx = 0
    /\ allJobs = <<>>
    /\ rateLimitInfo = nil
    /\ err = nil
    /\ response = nil
    /\ collected = <<>>
    /\ skipped = {}
    /\ lastReported = nil
    /\ lowestReported = nil
    /\ orgCalls = 0
    /\ runCalls = 0
    /\ survivors = 0
    /\ fetched = 0
    /\ calls = <<>>

\* dashboardHandler up to the call of fetchWorkflowRuns, and fetchWorkflowRuns
\* up to the loop over the organizations
HandleRequest ==
    /\ pc = "request"
    /\ period' = ValidatePeriod(query)
    /\ now' = clock
    /\ startTime' = StartTime(period', now', loc)
    /\ orgIdx' = 1
    /\ pc' = "listRepos"
    /\ UNCHANGED <<query, loc, clock, orgNames, repos, filteredRepos, repoIdx, allJobs,
                   rateLimitInfo, err, response, collected, skipped, lastReported,
                   lowestReported, orgCalls, runCalls, survivors, fetched>>

\* the loop over the organizations moves on
NextOrg ==
    /\ pc' = "listRepos"
    /\ orgIdx' = orgIdx + 1
    /\ repos' = <<>>
    /\ filteredRepos' = <<>>
    /\ repoIdx' = 0

\* the loop over filteredRepos moves on
NextRepo ==
    IF repoIdx < Len(filteredRepos)
    THEN repoIdx' = repoIdx + 1 /\ UNCHANGED <<pc, orgIdx, repos, filteredRepos>>
    ELSE NextOrg

\* history of the rates the calls reported
Reported(resp) ==
    /\ lastReported' = IF resp # nil THEN resp ELSE lastReported
    /\ lowestReported' =
         IF resp # nil /\ (lowestReported = nil
                           \/ Deref(resp).Remaining < Deref(lowestReported).Remaining)
         THEN resp ELSE lowestReported

\* ListByOrgFail returning the error to dashboardHandler
ListByOrgFailReturns ==
    /\ pc = "listRepos"
    /\ orgIdx <= Len(orgNames)
    /\ \E d \in Latencies : clock' = clock + d
    /\ orgCalls' = orgCalls + 1
    /\ skipped' = skipped \cup {<<orgIdx, "">>}
    /\ err' = Ptr("ListByOrg")
    /\ allJobs' = <<>>
    /\ response' = Ptr([Code |-> 500, Body |-> "Error fetching workflow runs"])
    /\ pc' = "done"
    /\ UNCHANGED <<query, loc, orgNames, period, now, startTime, orgIdx, repos,
                   filteredRepos, repoIdx, rateLimitInfo, collected, lastReported,
                   lowestReported, runCalls, survivors, fetched>>

\* Repositories.ListByOrg returns an error: continue
ListByOrgFail ==
    /\ pc = "listRepos"
    /\ orgIdx <= Len(orgNames)
    /\ \E d \in Latencies : clock' = clock + d
    /\ orgCalls' = orgCalls + 1
    /\ skipped' = skipped \cup {<<orgIdx, "">>}
    /\ NextOrg
    /\ UNCHANGED <<query, loc, orgNames, period, now, startTime, allJobs, rateLimitInfo,
                   err, response, collected, lastReported, lowestReported, runCalls,
                   survivors, fetched>>

\* Repositories.ListByOrg returns the listing rs and the rate resp: the rate,
\* the repository filter
ListByOrgReturn(rs, resp) ==
    /\ pc = "listRepos"
    /\ orgIdx <= Len(orgNames)
    /\ \E d \in Latencies : clock' = clock + d
    /\ orgCalls' = orgCalls + 1
    /\ rateLimitInfo' = UpdateRate(rateLimitInfo, resp)
    /\ Reported(resp)
    /\ LET filtered == FilterRepos(rs, period, now, startTime, loc)
       IN  /\ survivors' = survivors + Len(filtered)
           /\ IF filtered = <<>>
              THEN NextOrg
              ELSE /\ repos' = rs
                   /\ filteredRepos' = filtered
                   /\ repoIdx' = 1
                   /\ pc' = "listRuns"
                   /\ UNCHANGED orgIdx
    /\ UNCHANGED <<query, loc, orgNames, period, now, startTime, allJobs, err, response,
                   collected, skipped, runCalls, fetched>>

\* Repositories.ListByOrg returns a listing of repositories of repoPool
ListByOrgOk(repoPool) ==
    /\ pc = "listRepos"
    /\ orgIdx <= Len(orgNames)
    /\ \E held \in Listings(repoPool, Cardinality(repoPool)), resp \in Resps(now) :
          ListByOrgReturn(FirstPage(held, ReposPerPage), resp)

\* ListRunsFail asking the same repository again
ListRunsFailRetries ==
    /\ pc = "listRuns"
    /\ \E d \in Latencies : clock' = clock + d
    /\ runCalls' = runCalls + 1
    /\ skipped' = skipped \cup {<<orgIdx, filteredRepos[repoIdx].Name>>}
    /\ UNCHANGED <<pc, orgIdx, repos, filteredRepos, repoIdx>>
    /\ UNCHANGED <<query, loc, orgNames, period, now, startTime, allJobs, rateLimitInfo,
                   err, response, collected, lastReported, lowestReported, orgCalls,
                   survivors, fetched>>

\* Actions.ListRepositoryWorkflowRuns returns an error: continue
ListRunsFail ==
    /\ pc = "listRuns"
    /\ \E d \in Latencies : clock' = clock + d
    /\ runCalls' = runCalls + 1
    /\ skipped' = skipped \cup {<<orgIdx, filteredRepos[repoIdx].Name>>}
    /\ NextRepo
    /\ UNCHANGED <<query, loc, orgNames, period, now, startTime, allJobs, rateLimitInfo,
                   err, response, collected, lastReported, lowestReported, orgCalls,
                   survivors, fetched>>

\* Actions.ListRepositoryWorkflowRuns returns the listing runs and the rate
\* resp: the rate, the loop over the runs; a nil pointer dereference in the loop
\* panics, and the request is never answered
ListRunsReturn(runs, resp) ==
    /\ pc = "listRuns"
    /\ \E d \in Latencies : clock' = clock + d
    /\ runCalls' = runCalls + 1
    /\ rateLimitInfo' = UpdateRate(rateLimitInfo, resp)
    /\ Reported(resp)
    /\ fetched' = fetched + Len(runs)
    /\ IF LoopPanics(runs, period, now, startTime, loc)
       THEN /\ pc' = "panicked"
            /\ UNCHANGED <<orgIdx, repos, filteredRepos, repoIdx, allJobs, collected>>
       ELSE /\ LET jobs == ProcessRuns(runs, orgNames[orgIdx], filteredRepos[repoIdx],
                                       period, now, startTime, loc, clock')
               IN  /\ allJobs' = allJobs \o jobs
                   /\ collected' = collected \o jobs
            /\ NextRepo
    /\ UNCHANGED <<query, loc, orgNames, period, now, startTime, err, response, skipped,
                   orgCalls, survivors>>

\* Actions.ListRepositoryWorkflowRuns returns a listing of runs of runPool
ListRunsOk(runPool) ==
    /\ pc = "listRuns"
    /\ \E held \in Listings(runPool, MaxRuns - fetched), resp \in Resps(now) :
          ListRunsReturn(FirstPage(held, RunsPerPage), resp)

\* history: one entry of the log of calls; Held is what the API holds, Items
\* what the call returned, At the instant it returned
OrgCall(ok, held, items) ==
    [Org |-> orgIdx, Repo |-> "", Ok |-> ok, Held |-> held, Items |-> items, At |-> clock']

RunCall(ok, held, items) ==
    [Org |-> orgIdx, Repo |-> filteredRepos[repoIdx].Name, Ok |-> ok, Held |-> held,
     Items |-> items, At |-> clock']

\* the listing calls, with the log kept
LoggedListByOrgFail == ListByOrgFail /\ calls' = Append(calls, OrgCall(FALSE, <<>>, <<>>))

LoggedListByOrgOk(holdings) ==
    /\ pc = "listRepos"
    /\ orgIdx <= Len(orgNames)
    /\ \E held \in holdings, resp \in Resps(now) :
          /\ ListByOrgReturn(FirstPage(held, ReposPerPage), resp)
          /\ calls' = Append(calls, OrgCall(TRUE, held, FirstPage(held, ReposPerPage)))

LoggedListRunsFail == ListRunsFail /\ calls' = Append(calls, RunCall(FALSE, <<>>, <<>>))

LoggedListRunsOk(runPool) ==
    /\ pc = "listRuns"
    /\ \E held \in Listings(runPool, MaxRuns - fetched), resp \in Resps(now) :
          /\ ListRunsReturn(FirstPage(held, RunsPerPage), resp)
          /\ calls' = Append(calls, RunCall(TRUE, held, FirstPage(held, RunsPerPage)))

\* what dashboardHandler writes once fetchWorkflowRuns returned jobs, rate, e
Respond(jobs, rate, e) ==
    IF e # nil
    THEN [Code |-> 500, Body |-> "Error fetching workflow runs"]
    ELSE [Code |-> 200,
          Body |-> [Stats |-> calculateStats(jobs),
                    Jobs |-> jobs,
                    RateLimit |-> Deref(RateOrDefault(rate, clock))]]

\* after the loops: the sort, the default rate, return allJobs, rateLimitInfo, nil;
\* dashboardHandler writes the response
Finish ==
    /\ pc = "listRepos"
    /\ orgIdx > Len(orgNames)
    /\ allJobs' \in SortSlice(allJobs)
    /\ rateLimitInfo' = RateOrDefault(rateLimitInfo, clock)
    /\ err' = nil
    /\ response' = Ptr(Respond(allJobs', rateLimitInfo', err'))
    /\ pc' = "done"
    /\ UNCHANGED <<query, loc, clock, orgNames, period, now, startTime, orgIdx, repos,
                   filteredRepos, repoIdx, collected, skipped, lastReported,
                   lowestReported, orgCalls, runCalls, survivors, fetched>>

----------------------------------------------------------------------------
(* Specifications: the same request against different contents of the API *)

\* the cycle: several organizations, two repositories each, runs that tie
CycleRuns(t, l) == {r \in RunPool(t, l) : r.ID \in {1, 3, 6}}

CycleRepos(t, l) == {r \in RepoPool(t, l) : r.Name \in {"api", "web"}}

\* what the API holds for the one clock and location of Init
CycleRepoPool == CycleRepos(LateEvening, WIB)

CycleRunPool == CycleRuns(LateEvening, WIB)

Init == Start({"week"}, {WIB}, {LateEvening}, OrgConfigs)

Next ==
    \/ HandleRequest /\ UNCHANGED calls
    \/ ListByOrgFail /\ UNCHANGED calls
    \/ ListByOrgOk(CycleRepoPool) /\ UNCHANGED calls
    \/ ListRunsFail /\ UNCHANGED calls
    \/ ListRunsOk(CycleRunPool) /\ UNCHANGED calls
    \/ Finish /\ UNCHANGED calls

Spec == Init /\ [][Next]_vars

\* the windows: one organization, one repository, every period keyword, runs on
\* and around the bounds of the windows
InitWindow ==
    Start({"today", "week", "month", "", "year"}, {WIB, 0}, {LateEvening, Morning},
          {<<"acme">>})

NextWindow ==
    \/ HandleRequest /\ UNCHANGED calls
    \/ ListByOrgFail /\ UNCHANGED calls
    \/ ListByOrgOk({r \in RepoPool(now, loc) : r.Name = "api"}) /\ UNCHANGED calls
    \/ ListRunsFail /\ UNCHANGED calls
    \/ ListRunsOk(RunPool(now, loc)) /\ UNCHANGED calls
    \/ Finish /\ UNCHANGED calls

SpecWindow == InitWindow /\ [][NextWindow]_vars

\* the statuses: one organization, one repository, runs of every status and
\* conclusion, all inside the window
CompletedForms == <<"completed", "COMPLETED">>

Conclusions ==
    <<nil, Ptr("success"), Ptr("Success"), Ptr("failure"), Ptr("cancelled"), Ptr("skipped")>>

OtherForms == <<"in_progress", "queued", "QUEUED", "waiting">>

StatusRuns(t, l) ==
    LET at == Ptr(Midnight(t, l) + Hour)
    IN  {Run(100 + 10 * i + j, at, at, CompletedForms[i], Conclusions[j]) :
            i \in DOMAIN CompletedForms, j \in DOMAIN Conclusions}
        \cup
        {Run(200 + 10 * i + j, at, at, OtherForms[i], Conclusions[j]) :
            i \in DOMAIN OtherForms, j \in 1..2}

\* what the API holds for the one clock and location of InitStatus
StatusRepoPool == {r \in RepoPool(LateEvening, WIB) : r.Name = "api"}

StatusRunPool == StatusRuns(LateEvening, WIB)

InitStatus == Start({"week"}, {WIB}, {LateEvening}, {<<"acme">>})

NextStatus ==
    \/ HandleRequest /\ UNCHANGED calls
    \/ ListByOrgFail /\ UNCHANGED calls
    \/ ListByOrgOk(StatusRepoPool) /\ UNCHANGED calls
    \/ ListRunsFail /\ UNCHANGED calls
    \/ ListRunsOk(StatusRunPool) /\ UNCHANGED calls
    \/ Finish /\ UNCHANGED calls

SpecStatus == InitStatus /\ [][NextStatus]_vars

\* the identifiers: the organizations as init parses them from GITHUB_ORG, one
\* repository each, runs whose ids belong to one repository of one organization
OrgEnvs == {"acme", "acme,globex", " acme , globex,", "acme,acme", "globex, acme,globex"}

\* init: log.Fatal when parseOrganizations returns no organization
IdentConfigs == {parseOrganizations(e) : e \in OrgEnvs} \ {<<>>}

IdentRepoPool == {r \in RepoPool(LateEvening, WIB) : r.Name = "api"}

\* the runs of the repository of org: ids of fewer and of more than six digits
IdentRuns(org) ==
    LET at == Ptr(Midnight(LateEvening, WIB) + Hour)
    IN  IF org = "acme"
        THEN {Run(41, at, at, "completed", Ptr("success")),
              Run(1000041, at, at, "completed", Ptr("failure"))}
        ELSE {Run(42, at, at, "queued", nil)}

InitIdent == Start({"week"}, {WIB}, {LateEvening}, IdentConfigs)

NextIdent ==
    \/ HandleRequest /\ UNCHANGED calls
    \/ ListByOrgFail /\ UNCHANGED calls
    \/ ListByOrgOk(IdentRepoPool) /\ UNCHANGED calls
    \/ ListRunsFail /\ UNCHANGED calls
    \/ ListRunsOk(IdentRuns(orgNames[orgIdx])) /\ UNCHANGED calls
    \/ Finish /\ UNCHANGED calls

SpecIdent == InitIdent /\ [][NextIdent]_vars

\* the durations: one organization, one repository, runs of every elapsed time
\* around the minute and the hour, and runs that lack some of their instants
Elapsed == <<0, 9, 59, 60, 125, 3599, 3600, 3661, 7325, 36610>>

DurationRepoPool == {r \in RepoPool(LateEvening, WIB) : r.Name = "api"}

DurationRuns ==
    LET created == Midnight(LateEvening, WIB) + Hour
        started == created + 600
        updated == started + 125
    IN  {WorkflowRun(300 + i, Ptr(started), Ptr(started), Ptr(started + Elapsed[i]),
                     "completed", Ptr("success")) : i \in DOMAIN Elapsed}
        \cup
        {WorkflowRun(321, Ptr(started), Ptr(created), Ptr(updated), "completed", Ptr("success")),
         WorkflowRun(322, Ptr(started), Ptr(created), nil, "in_progress", nil),
         WorkflowRun(323, Ptr(started), nil, Ptr(updated), "completed", Ptr("success")),
         WorkflowRun(324, Ptr(started), nil, nil, "in_progress", nil),
         WorkflowRun(325, nil, Ptr(created), Ptr(updated), "completed", Ptr("failure")),
         WorkflowRun(326, nil, Ptr(created), nil, "queued", nil),
         WorkflowRun(327, nil, nil, Ptr(updated), "completed", Ptr("success")),
         WorkflowRun(328, nil, nil, nil, "queued", nil)}

InitDuration == Start({"week"}, {WIB}, {LateEvening}, {<<"acme">>})

NextDuration ==
    \/ HandleRequest /\ UNCHANGED calls
    \/ LoggedListByOrgFail
    \/ LoggedListByOrgOk(Listings(DurationRepoPool, 1))
    \/ LoggedListRunsFail
    \/ LoggedListRunsOk(DurationRuns)
    \/ Finish /\ UNCHANGED calls

SpecDuration == InitDuration /\ [][NextDuration]_vars

\* the repository filter: one organization, repositories on and around the
\* bounds of the windows, pushed long before they were updated, without instants
FilterRepoPool(t, l) ==
    LET d == Midnight(t, l)
    IN  {r \in {Repo("api", Ptr(d + Hour), Ptr(d + Hour)),
                Repo("early", Ptr(d + Hour - 1), Ptr(d + 2 * Hour)),
                Repo("edge", Ptr(d + 23 * Hour), Ptr(d + 23 * Hour)),
                Repo("late", Ptr(d + 23 * Hour + 1), Ptr(d + 23 * Hour + 1)),
                Repo("web", nil, Ptr(d + 2 * Hour)),
                Repo("stale", Ptr(AddDays(t, -8)), Ptr(d + 2 * Hour)),
                Repo("old", nil, Ptr(AddDays(t, -8))),
                Repo("docs", nil, nil)} :
           \A ts \in {r.PushedAt, r.UpdatedAt} : ts = nil \/ Deref(ts) <= t}

FilterRuns(t, l) == {r \in RunPool(t, l) : r.ID = 1}

InitRepos == Start({"today", "week", "month"}, {WIB}, {LateEvening, Morning}, {<<"acme">>})

NextRepos ==
    \/ HandleRequest /\ UNCHANGED calls
    \/ LoggedListByOrgFail
    \/ LoggedListByOrgOk(Listings(FilterRepoPool(now, loc), MaxRepos))
    \/ LoggedListRunsFail
    \/ LoggedListRunsOk(FilterRuns(now, loc))
    \/ Finish /\ UNCHANGED calls

SpecRepos == InitRepos /\ [][NextRepos]_vars

\* the run filter: one organization, one repository, the runs of RunPool and
\* runs outside every window, or without instants, that lack status, name or id
RunFilterPool(t, l) ==
    RunPool(t, l)
    \cup {Without(Run(10, Ptr(AddDays(t, -40)), Ptr(AddDays(t, -40)), "completed", nil),
                  {"Status", "Name"}),
          Without(Run(11, nil, nil, "queued", nil), {"Status", "ID"})}

InitRuns == Start({"today", "week", "month"}, {WIB}, {LateEvening, Morning}, {<<"acme">>})

NextRuns ==
    \/ HandleRequest /\ UNCHANGED calls
    \/ LoggedListByOrgFail
    \/ LoggedListByOrgOk(Listings({r \in RepoPool(now, loc) : r.Name = "api"}, 1))
    \/ LoggedListRunsFail
    \/ LoggedListRunsOk(RunFilterPool(now, loc))
    \/ Finish /\ UNCHANGED calls

SpecRuns == InitRuns /\ [][NextRuns]_vars

\* the calls: one or two organizations, repositories of which one fails the
\* filter, one run
CallConfigs == {<<"acme">>, <<"acme", "globex">>}

CallRepoPool == RepoPool(LateEvening, WIB)

CallRunPool == {r \in RunPool(LateEvening, WIB) : r.ID = 1}

InitCalls == Start({"week"}, {WIB}, {LateEvening}, CallConfigs)

NextCalls ==
    \/ HandleRequest /\ UNCHANGED calls
    \/ LoggedListByOrgFail
    \/ LoggedListByOrgOk(Listings(CallRepoPool, MaxRepos))
    \/ LoggedListRunsFail
    \/ LoggedListRunsOk(CallRunPool)
    \/ Finish /\ UNCHANGED calls

SpecCalls == InitCalls /\ [][NextCalls]_vars

\* the pages: organizations that hold as many repositories as a page takes, or
\* one more; the first and the last were pushed today, the others long ago
Holding(n) ==
    LET today == Ptr(Midnight(LateEvening, WIB) + Hour)
        longAgo == Ptr(AddDays(LateEvening, -40))
    IN  [i \in 1..n |-> IF i = 1 \/ i = n
                        THEN Repo("repo-" \o ToString(i), today, today)
                        ELSE Repo("repo-" \o ToString(i), longAgo, longAgo)]

Holdings == {Holding(ReposPerPage), Holding(ReposPerPage + 1)}

InitPages == Start({"week"}, {WIB}, {LateEvening}, CallConfigs)

NextPages ==
    \/ HandleRequest /\ UNCHANGED calls
    \/ LoggedListByOrgFail
    \/ LoggedListByOrgOk(Holdings)
    \/ LoggedListRunsFail
    \/ LoggedListRunsOk(CallRunPool)
    \/ Finish /\ UNCHANGED calls

SpecPages == InitPages /\ [][NextPages]_vars

\* the fields: one organization, one repository, runs inside the window that
\* lack one of the fields of the payload
FieldRuns ==
    LET at == Ptr(Midnight(LateEvening, WIB) + Hour)
        full(id) == Run(id, at, at, "completed", Ptr("success"))
    IN  {full(401),
         Run(402, at, at, "completed", nil),
         [full(403) EXCEPT !.RunNumber = nil],
         [full(404) EXCEPT !.HeadBranch = nil],
         Without(full(405), {"Status"}),
         Without(full(406), {"Name"}),
         Without(full(407), {"ID"})}

InitFields == Start({"week"}, {WIB}, {LateEvening}, {<<"acme">>})

NextFields ==
    \/ HandleRequest /\ UNCHANGED calls
    \/ LoggedListByOrgFail
    \/ LoggedListByOrgOk(Listings(DurationRepoPool, 1))
    \/ LoggedListRunsFail
    \/ LoggedListRunsOk(FieldRuns)
    \/ Finish /\ UNCHANGED calls

SpecFields == InitFields /\ [][NextFields]_vars

----------------------------------------------------------------------------
(* What the claims speak of *)

DashboardStatuses == {"success", "failed", "running", "pending"}

Written == pc = "done" /\ Deref(response).Code = 200

ResponseJobs == Deref(response).Body.Jobs

ResponseStats == Deref(response).Body.Stats

ResponseRate == Deref(response).Body.RateLimit

\* the run of the API a job was made from
SourceRun(job) ==
    CHOOSE r \in RunPool(now, loc) \cup StatusRuns(now, loc) : r.ID = job.RunID

\* the instant the window test looks at
StartInstant(run) ==
    IF run.RunStartedAt # nil THEN Deref(run.RunStartedAt) ELSE Deref(run.CreatedAt)

Local(t) == t + loc

SameLocalDay(t, u) == Local(t) \div Day = Local(u) \div Day

TimeOfDay(t) == Local(t) % Day

Occurrences(s, x) == Cardinality({i \in DOMAIN s : s[i] = x})

SameJobs(a, b) ==
    /\ Len(a) = Len(b)
    /\ \A x \in Range(a) \cup Range(b) : Occurrences(a, x) = Occurrences(b, x)

NewestFirst(jobs) ==
    \A i \in 1..(Len(jobs) - 1) : jobs[i].CreatedAt >= jobs[i + 1].CreatedAt

FromUnit(job, u) ==
    /\ job.Organization = orgNames[u[1]]
    /\ (u[2] # "" => job.Pipeline = u[2])

----------------------------------------------------------------------------
(* C1: every job carries the status the rule gives for its run's status and
   conclusion, whatever their case: completed and success give success,
   completed and anything else or nothing give failed, in_progress and queued
   give running, every other status gives pending; so every job of a response
   has one of the four statuses. *)

ClaimedStatus(run) ==
    LET completed == run.Status \in {"completed", "Completed", "COMPLETED"}
        success == run.Conclusion \in {Ptr("success"), Ptr("Success"), Ptr("SUCCESS")}
        active == run.Status \in {"in_progress", "In_Progress", "queued", "QUEUED"}
    IN  IF completed THEN (IF success THEN "success" ELSE "failed")
        ELSE IF active THEN "running"
        ELSE "pending"

StatusNormalized ==
    /\ \A i \in DOMAIN allJobs :
          /\ allJobs[i].Status = ClaimedStatus(SourceRun(allJobs[i]))
          /\ allJobs[i].Status \in DashboardStatuses
    /\ Written => \A i \in DOMAIN ResponseJobs : ResponseJobs[i].Status \in DashboardStatuses

StatusNormalizedWitness ==
    /\ Written
    /\ \E i \in DOMAIN ResponseJobs :
          /\ SourceRun(ResponseJobs[i]).Status = "COMPLETED"
          /\ SourceRun(ResponseJobs[i]).Conclusion = Ptr("Success")
          /\ ResponseJobs[i].Status = "success"
    /\ \E i \in DOMAIN ResponseJobs :
          /\ SourceRun(ResponseJobs[i]).Status = "completed"
          /\ SourceRun(ResponseJobs[i]).Conclusion = nil
          /\ ResponseJobs[i].Status = "failed"

----------------------------------------------------------------------------
(* C2: for period today, the created_at of every job of the response lies, in
   local time, within 01:00:00 and 23:00:00 of the day of the request. *)

TodayJobsCreatedInWindow ==
    (Written /\ period = "today") =>
        \A i \in DOMAIN ResponseJobs :
            /\ SameLocalDay(ResponseJobs[i].CreatedAt, now)
            /\ TimeOfDay(ResponseJobs[i].CreatedAt) >= Hour
            /\ TimeOfDay(ResponseJobs[i].CreatedAt) <= 23 * Hour

----------------------------------------------------------------------------
(* C3: a listing that fails does not end the cycle: the unit that failed gives
   no job, every organization and every repository that passed the filter is
   asked for, every job collected is in the response, and fetchWorkflowRuns
   returns no error. *)

CycleSurvivesFailures ==
    /\ \A u \in skipped : \A i \in DOMAIN allJobs : ~FromUnit(allJobs[i], u)
    /\ pc = "done" =>
          /\ err = nil
          /\ Deref(response).Code = 200
          /\ orgCalls = Len(orgNames)
          /\ runCalls = survivors
          /\ SameJobs(ResponseJobs, collected)

CycleSurvivesFailuresWitness ==
    /\ Written
    /\ <<1, "">> \in skipped
    /\ <<2, "api">> \in skipped
    /\ \E i \in DOMAIN ResponseJobs :
          ResponseJobs[i].Organization = orgNames[2] /\ ResponseJobs[i].Pipeline = "web"

----------------------------------------------------------------------------
(* C4: the rate limit of the response is the one the last call that reported
   one reported, not the lowest, and it is 5000 of 5000 with the reset an hour
   ahead exactly when no call reported one. *)

RateIsLastReported ==
    Written =>
        /\ lastReported # nil =>
              ResponseRate = [Remaining |-> Deref(lastReported).Remaining,
                              Limit |-> Deref(lastReported).Limit,
                              ResetAt |-> Deref(lastReported).Reset]
        /\ lastReported = nil =>
              ResponseRate = [Remaining |-> 5000, Limit |-> 5000, ResetAt |-> clock + Hour]
        /\ (ResponseRate.Remaining = 5000 /\ ResponseRate.ResetAt = clock + Hour)
              <=> lastReported = nil

RateIsLastReportedWitness ==
    /\ Written
    /\ lastReported # nil
    /\ Deref(lowestReported).Remaining = 80
    /\ Deref(lastReported).Remaining = 95
    /\ ResponseRate.Remaining = 95

----------------------------------------------------------------------------
(* C5: when the repository listing of the first organization fails, the
   request is answered with an error and no dashboard response. *)

FirstCallFailureSurfaced ==
    (pc = "done" /\ <<1, "">> \in skipped) => Deref(response).Code = 500

----------------------------------------------------------------------------
(* C6: the jobs fetchWorkflowRuns returns are the jobs it collected, each as
   often as it was collected, with no job created before the job that follows
   it. *)

SortedPermutation ==
    pc = "done" =>
        /\ SameJobs(allJobs, collected)
        /\ NewestFirst(allJobs)
        /\ Written => ResponseJobs = allJobs

SortedPermutationWitness ==
    /\ Written
    /\ Len(collected) >= 2
    /\ ~NewestFirst(collected)

----------------------------------------------------------------------------
(* C7: the stats of a response count its jobs: each of the four counts is the
   number of jobs with that status, total is the number of jobs, and the four
   counts add up to total. *)

WithStatus(jobs, status) == {i \in DOMAIN jobs : jobs[i].Status = status}

StatsConsistent ==
    Written =>
        /\ ResponseStats.Success = Cardinality(WithStatus(ResponseJobs, "success"))
        /\ ResponseStats.Failed = Cardinality(WithStatus(ResponseJobs, "failed"))
        /\ ResponseStats.Running = Cardinality(WithStatus(ResponseJobs, "running"))
        /\ ResponseStats.Pending = Cardinality(WithStatus(ResponseJobs, "pending"))
        /\ ResponseStats.Total = Len(ResponseJobs)
        /\ ResponseStats.Success + ResponseStats.Failed + ResponseStats.Running
             + ResponseStats.Pending = ResponseStats.Total

StatsConsistentWitness ==
    /\ Written
    /\ ResponseStats.Pending = 1
    /\ ResponseStats.Failed = 1
    /\ ResponseStats.Total = 2

----------------------------------------------------------------------------
(* C8: sorting the jobs of a response again and counting them again gives the
   same order and the same stats, also when jobs share a creation instant. *)

----------------------------------------------------------------------------
(* C9: jobs with the same creation instant are in the response in the order
   in which they were collected. *)

PlaceInResponse(job) == CHOOSE m \in DOMAIN ResponseJobs : ResponseJobs[m] = job

SortStableOnTies ==
    Written =>
        \A i, j \in DOMAIN collected :
            (i < j /\ collected[i].CreatedAt = collected[j].CreatedAt) =>
                PlaceInResponse(collected[i]) < PlaceInResponse(collected[j])

----------------------------------------------------------------------------
(* C10: today gives the window from 01:00:00 to 23:00:00 local time of the day
   of the request, week the window from seven days before the request with no
   end, month the window from 00:00:00 local time of the first of the month
   with no end, and every other keyword, the empty one too, the window of
   week. *)

InClaimedWindow(t) ==
    CASE query = "today" ->
            SameLocalDay(t, now) /\ TimeOfDay(t) >= Hour /\ TimeOfDay(t) <= 23 * Hour
      [] query = "month" -> Month(t, loc) >= Month(now, loc)
      [] OTHER -> t >= now - 7 * Day

PeriodResolved ==
    pc # "request" =>
        /\ query = "today" => SameLocalDay(startTime, now) /\ TimeOfDay(startTime) = Hour
        /\ query = "today" =>
              SameLocalDay(EndTime(now, loc), now) /\ TimeOfDay(EndTime(now, loc)) = 23 * Hour
        /\ query = "month" =>
              /\ Month(startTime, loc) = Month(now, loc)
              /\ DayOfMonth(startTime, loc) = 1
              /\ TimeOfDay(startTime) = 0
        /\ query \notin {"today", "month"} => startTime = now - 7 * Day
        /\ \A r \in RunPool(now, loc) :
              RunPasses(r, period, now, startTime, loc) <=>
                 /\ (r.RunStartedAt # nil \/ r.CreatedAt # nil)
                 /\ InClaimedWindow(StartInstant(r))

PeriodResolvedWitness ==
    /\ Written
    /\ query = ""
    /\ \E i \in DOMAIN ResponseJobs :
          /\ SameLocalDay(StartInstant(SourceRun(ResponseJobs[i])), now)
          /\ TimeOfDay(StartInstant(SourceRun(ResponseJobs[i]))) > 23 * Hour

----------------------------------------------------------------------------
(* C11: in a response, two jobs with the same identifier come from the same
   run id, and no two jobs carry the same identifier, whatever list of
   organizations parseOrganizations returned. *)

JobIdentifiersUnique ==
    Written =>
        \A i, j \in DOMAIN ResponseJobs :
            /\ ResponseJobs[i].ID = ResponseJobs[j].ID =>
                  ResponseJobs[i].RunID = ResponseJobs[j].RunID
            /\ i # j => ResponseJobs[i].ID # ResponseJobs[j].ID

----------------------------------------------------------------------------
(* C12: the duration of a job is "N/A" only when its run has neither a
   run-started-at nor a created-at; whenever the run has a start (run-started-at
   if present, else created-at), the duration is the elapsed time from that
   start to the run's updated-at, or to the current instant when updated-at is
   absent. *)

\* the run-listing call whose listing the job was made from
CallOf(job) ==
    CHOOSE c \in Range(calls) :
        /\ c.Repo = job.Pipeline
        /\ orgNames[c.Org] = job.Organization
        /\ \E i \in DOMAIN c.Items : c.Items[i].ID = job.RunID

RunOf(job) == CHOOSE r \in Range(CallOf(job).Items) : r.ID = job.RunID

HasStart(run) == run.RunStartedAt # nil \/ run.CreatedAt # nil

ClaimedRendering(e) ==
    LET h == e \div 3600
        m == (e \div 60) % 60
        sec == e % 60
    IN  IF e >= 3600 THEN ToString(h) \o "h " \o ToString(m) \o "m " \o ToString(sec) \o "s"
        ELSE IF e >= 60 THEN ToString(m) \o "m " \o ToString(sec) \o "s"
        ELSE ToString(sec) \o "s"

ClaimedEnd(job) ==
    IF RunOf(job).UpdatedAt # nil THEN Deref(RunOf(job).UpdatedAt) ELSE CallOf(job).At

DurationFromStart ==
    \A i \in DOMAIN collected :
        LET job == collected[i]
        IN  /\ job.Duration = "N/A" => ~HasStart(RunOf(job))
            /\ HasStart(RunOf(job)) =>
                  job.Duration = ClaimedRendering(ClaimedEnd(job) - StartInstant(RunOf(job)))

----------------------------------------------------------------------------
(* C13: formatDuration renders a non-negative elapsed time of e whole seconds
   as "<h>h <m>m <s>s" when e >= 3600, as "<m>m <s>s" when 60 <= e < 3600 and as
   "<s>s" when e < 60, with h = e div 3600, m = (e div 60) mod 60 and
   s = e mod 60: 3661 gives "1h 1m 1s", 125 gives "2m 5s", 9 gives "9s". *)

\* the jobs whose duration is formatDuration(run-started-at, updated-at)
Measured == {i \in DOMAIN collected :
                /\ RunOf(collected[i]).RunStartedAt # nil
                /\ RunOf(collected[i]).UpdatedAt # nil}

ElapsedOf(job) == Deref(RunOf(job).UpdatedAt) - Deref(RunOf(job).RunStartedAt)

DurationRendered ==
    \A i \in Measured :
        LET e == ElapsedOf(collected[i])
        IN  e >= 0 =>
              /\ collected[i].Duration = ClaimedRendering(e)
              /\ e = 3661 => collected[i].Duration = "1h 1m 1s"
              /\ e = 125 => collected[i].Duration = "2m 5s"
              /\ e = 9 => collected[i].Duration = "9s"
              /\ e = 3600 => collected[i].Duration = "1h 0m 0s"
              /\ e = 59 => collected[i].Duration = "59s"

DurationRenderedWitness ==
    /\ Written
    /\ \E i \in Measured :
          ElapsedOf(collected[i]) = 3661 /\ collected[i].Duration = "1h 1m 1s"
    /\ \E i \in Measured :
          ElapsedOf(collected[i]) = 60 /\ collected[i].Duration = "1m 0s"

----------------------------------------------------------------------------
(* C14: a repository of a listing gets a run-listing call exactly when it has
   a comparison instant (last-pushed if present, else last-updated) that is not
   before the start of the window and, for today only, not after its end; a
   repository with neither instant gets none; week and month have no end. *)

IsOrgCall(c) == c.Repo = ""

\* the index of the repository listing that follows call k, or past the log
NextOrgCall(k) ==
    IF \E m \in (k + 1)..Len(calls) : IsOrgCall(calls[m])
    THEN CHOOSE m \in (k + 1)..Len(calls) :
            IsOrgCall(calls[m]) /\ \A n \in (k + 1)..(m - 1) : ~IsOrgCall(calls[n])
    ELSE Len(calls) + 1

\* the repositories asked for their runs after the repository listing k
AskedAfter(k) == [i \in 1..(NextOrgCall(k) - k - 1) |-> calls[k + i].Repo]

\* the loop over the repositories of the organization of call k has ended
OrgDone(k) == pc = "done" \/ orgIdx > calls[k].Org

IsPrefix(s, t) == Len(s) <= Len(t) /\ s = SubSeq(t, 1, Len(s))

ClaimedRepoSurvives(repo) ==
    IF repo.PushedAt # nil THEN InClaimedWindow(Deref(repo.PushedAt))
    ELSE IF repo.UpdatedAt # nil THEN InClaimedWindow(Deref(repo.UpdatedAt))
    ELSE FALSE

ClaimedSurvivors(listing) ==
    LET kept == SelectSeq(listing, ClaimedRepoSurvives)
    IN  [i \in DOMAIN kept |-> kept[i].Name]

RepoFilterExact ==
    \A k \in DOMAIN calls :
        (IsOrgCall(calls[k]) /\ calls[k].Ok) =>
            /\ IsPrefix(AskedAfter(k), ClaimedSurvivors(calls[k].Items))
            /\ OrgDone(k) => AskedAfter(k) = ClaimedSurvivors(calls[k].Items)

RepoFilterExactWitness ==
    /\ Written
    /\ query = "today"
    /\ \E k \in DOMAIN calls :
          /\ IsOrgCall(calls[k])
          /\ \E i, j \in DOMAIN calls[k].Items :
                calls[k].Items[i].Name = "late" /\ calls[k].Items[j].Name = "web"
          /\ AskedAfter(k) = <<"web">>

----------------------------------------------------------------------------
(* C15: a run of a listing becomes a job exactly when it has a start instant
   (run-started-at if present, else created-at) that passes the window test of
   the repositories, with the same start and the same end for today; a run
   with neither instant and a run outside the window give no job, raise no
   error and leave the other runs of the listing alone. *)

ClaimedRunKept(run) == HasStart(run) /\ InClaimedWindow(StartInstant(run))

\* the jobs appended for the listing of call c, in the order appended
JobsOfCall(c) ==
    SelectSeq(collected, LAMBDA job : job.Pipeline = c.Repo /\ job.Organization = orgNames[c.Org])

\* the position in its listing of the run each job was made from
PlaceInListing(c, job) ==
    CHOOSE i \in DOMAIN c.Items : "ID" \in DOMAIN c.Items[i] /\ c.Items[i].ID = job.RunID

KeptPlaces(c) == {i \in DOMAIN c.Items : ClaimedRunKept(c.Items[i])}

RunFilterExact ==
    /\ pc # "panicked"
    /\ pc = "done" => err = nil
    /\ \A k \in DOMAIN calls :
          (~IsOrgCall(calls[k]) /\ calls[k].Ok) =>
              LET jobs == JobsOfCall(calls[k])
                  places == [i \in DOMAIN jobs |-> PlaceInListing(calls[k], jobs[i])]
              IN  /\ Range(places) = KeptPlaces(calls[k])
                  /\ \A i, j \in DOMAIN places : i < j => places[i] < places[j]

RunFilterExactWitness ==
    /\ Written
    /\ query = "today"
    /\ \E k \in DOMAIN calls :
          /\ ~IsOrgCall(calls[k])
          /\ Len(calls[k].Items) = 2
          /\ "Status" \notin DOMAIN calls[k].Items[1]
          /\ calls[k].Items[2].ID = 5
          /\ Len(JobsOfCall(calls[k])) = 1
          /\ JobsOfCall(calls[k])[1].RunID = 5

----------------------------------------------------------------------------
(* C16: the repository listing of each organization is asked for once, in the
   configured order; the run listing of each repository that passed the filter
   is asked for once, in the order of the listing, after the listing of its
   organization and before that of the next one; no run listing is asked for
   of a repository that failed the filter or of an organization whose listing
   failed; no call is made again after an error. *)

RepoListingCalls == SelectSeq(calls, IsOrgCall)

CallsOnceInOrder ==
    /\ \A i \in DOMAIN RepoListingCalls : RepoListingCalls[i].Org = i
    /\ Len(RepoListingCalls) <= Len(orgNames)
    /\ pc = "done" => Len(RepoListingCalls) = Len(orgNames)
    /\ calls # <<>> => IsOrgCall(calls[1])
    /\ \A k \in DOMAIN calls :
          IF IsOrgCall(calls[k])
          THEN LET due == IF calls[k].Ok THEN ClaimedSurvivors(calls[k].Items) ELSE <<>>
               IN  /\ IsPrefix(AskedAfter(k), due)
                   /\ OrgDone(k) => AskedAfter(k) = due
                   /\ \A i \in 1..(NextOrgCall(k) - k - 1) : calls[k + i].Org = calls[k].Org
          ELSE k > 1

CallsOnceInOrderWitness ==
    /\ Written
    /\ Len(calls) = 5
    /\ calls[1].Ok /\ Len(calls[1].Items) = 2
    /\ [i \in 1..2 |-> calls[1].Items[i].Name] = <<"docs", "api">>
    /\ calls[2].Repo = "api"
    /\ calls[3].Org = 2 /\ Len(calls[3].Items) = 2
    /\ [i \in 1..2 |-> calls[3].Items[i].Name] = <<"web", "api">>
    /\ calls[4].Repo = "web" /\ ~calls[4].Ok
    /\ calls[5].Repo = "api" /\ calls[5].Ok

----------------------------------------------------------------------------
(* C17: when the repository listing of an organization succeeds, every
   repository the organization holds is listed and filtered, however many
   pages the API needs: no repository inside the window is left without a
   run-listing call. *)

AllPagesFiltered ==
    \A k \in DOMAIN calls :
        (IsOrgCall(calls[k]) /\ calls[k].Ok /\ OrgDone(k)) =>
            \A i \in DOMAIN calls[k].Held :
                ClaimedRepoSurvives(calls[k].Held[i]) =>
                    \E j \in DOMAIN AskedAfter(k) : AskedAfter(k)[j] = calls[k].Held[i].Name

----------------------------------------------------------------------------
(* C18: no run ends the cycle: for a run that passes the window test,
   whichever of status, name, id, conclusion, run number and branch its
   payload lacks, making its job raises nothing, the runs after it are
   processed, and the cycle ends with a response. *)

NoRunAborts ==
    /\ pc # "panicked"
    /\ Written =>
          \A k \in DOMAIN calls :
              (~IsOrgCall(calls[k]) /\ calls[k].Ok) =>
                  Len(JobsOfCall(calls[k])) = Cardinality(KeptPlaces(calls[k]))

====
